---- MODULE Spec2Model ----
(***************************************************************************)
(* Model of src/mesh_ingester.py: the field validators, the per-row loop   *)
(* of ingest_and_validate_csv, and main's report-or-persist decision.      *)
(*                                                                         *)
(* Cell values.  A cell of the DataFrame is one of                         *)
(*   [t |-> "nan"]                 the missing value read_csv produces     *)
(*   [t |-> "str",  s |-> "..."]   a raw string                            *)
(*   [t |-> "text", toks |-> <<..>>]  a raw string kept as a sequence of   *)
(*                                 tokens (words, "," and " "), so that    *)
(*                                 split(',') and strip() can be computed  *)
(*   [t |-> "float", v |-> n]      a float, in units of 1/10000            *)
(*   [t |-> "bool", b |-> ..]  [t |-> "int", n |-> ..]  [t |-> "none"]     *)
(*   [t |-> "list", l |-> <<..>>]  a list of token strings                 *)
(*                                                                         *)
(* A run starts from the frame pd.read_csv returns: csv holds its cells    *)
(* and never changes; df is the frame the loop coerces and filters.  An    *)
(* exception that no except clause catches ends the run in pc = "crashed". *)
(***************************************************************************)
EXTENDS Integers, Sequences, FiniteSets, TLC

VARIABLES csv, df, duplicated_status, error_messages, i, pc,
          stdout, k, db, sink_calls

vars == <<csv, df, duplicated_status, error_messages, i, pc,
          stdout, k, db, sink_calls>>

\* Largest batch (number of data lines of the file).
MaxRows == 2
\* Largest number of cells of a batch that differ from a well-formed row.
MaxDefects == 2

NaN == [t |-> "nan"]
None == [t |-> "none"]
Str(s) == [t |-> "str", s |-> s]
Text(toks) == [t |-> "text", toks |-> toks]
FloatVal(v) == [t |-> "float", v |-> v]
BoolVal(b) == [t |-> "bool", b |-> b]
IntVal(n) == [t |-> "int", n |-> n]
ListVal(l) == [t |-> "list", l |-> l]

\* Outcome of a call: a returned value or a raised exception.
\* msg is <<field name or "", text>>.
Return(v) == [ok |-> TRUE, exc |-> "", msg |-> <<"", "">>, val |-> v]
Raise(e, m) == [ok |-> FALSE, exc |-> e, msg |-> m, val |-> NaN]

required_fields ==
  <<"codename", "trame", "mass_surf", "is_compat_interior_wall",
    "mesh_height", "mesh_width", "color_names">>
valid_trames == {"T2 Ra1 M2 E2", "T2 Ra1 M4 E2", "T2 Ra1 M4 E3"}
valid_colors ==
  {"white", "yellow", "green", "purple", "red", "blue", "orange",
   "magenta", "dark", "grey", "cyan"}

pd_isnull(value) == value.t \in {"nan", "none"}

(***************************************************************************)
(* Python built-ins, on the literals the batches use.                      *)
(***************************************************************************)
\* float(s) for the strings that parse, in units of 1/10000.
FloatLiterals ==
  [s \in {"0", "1.0", "2.0", "12.5", "-3", "-0.0001"} |->
     CASE s = "0" -> 0
       [] s = "1.0" -> 10000
       [] s = "2.0" -> 20000
       [] s = "12.5" -> 125000
       [] s = "-3" -> -30000
       [] s = "-0.0001" -> -1]

\* float(value): a float stays itself (nan included), a string is parsed.
PyFloat(value) ==
  IF value.t \in {"nan", "float"} THEN Return(value)
  ELSE IF value.t = "str" /\ value.s \in DOMAIN FloatLiterals
       THEN Return(FloatVal(FloatLiterals[value.s]))
       ELSE Raise("ValueError", <<"", "could not convert string to float">>)

\* x < 0 on floats: every comparison with nan is false.
FloatNegative(x) == x.t = "float" /\ x.v < 0

\* int(s) for the strings that parse.
IntLiterals == [s \in {"4", "-2"} |-> IF s = "4" THEN 4 ELSE -2]

PyInt(value) ==
  IF value.t = "str" /\ value.s \in DOMAIN IntLiterals
  THEN Return(IntVal(IntLiterals[value.s]))
  ELSE Raise("ValueError", <<"", "invalid literal for int()">>)

\* str(value).lower()
Lower(s) ==
  CASE s = "FAUX" -> "faux"
    [] s = "Vrai" -> "vrai"
    [] OTHER -> s
PyStrLower(value) == IF value.t = "str" THEN Lower(value.s) ELSE "nan"

\* s.split(','): the pieces between the commas, empty pieces included.
RECURSIVE Split(_)
Split(toks) ==
  IF \A p \in 1..Len(toks) : toks[p] # ","
  THEN <<toks>>
  ELSE LET c == CHOOSE p \in 1..Len(toks) :
                  toks[p] = "," /\ \A q \in 1..(p - 1) : toks[q] # ","
       IN <<SubSeq(toks, 1, c - 1)>> \o Split(SubSeq(toks, c + 1, Len(toks)))

\* s.strip(): leading and trailing blanks removed.
RECURSIVE Strip(_)
Strip(toks) ==
  IF toks = <<>> THEN toks
  ELSE IF Head(toks) = " " THEN Strip(Tail(toks))
  ELSE IF toks[Len(toks)] = " " THEN Strip(SubSeq(toks, 1, Len(toks) - 1))
  ELSE toks

\* ','.join(l)
RECURSIVE Join(_)
Join(l) ==
  IF l = <<>> THEN <<>>
  ELSE IF Len(l) = 1 THEN l[1]
  ELSE l[1] \o <<",">> \o Join(Tail(l))

\* A token string that is exactly one word of the set.
IsWordOf(toks, words) == Len(toks) = 1 /\ toks[1] \in words

(***************************************************************************)
(* Field validators.                                                       *)
(***************************************************************************)
convert_and_validate_colors(color_names_str, possible_colors) ==
  IF color_names_str.t # "text"
  THEN Raise("AttributeError", <<"", "'float' object has no attribute 'split'">>)
  ELSE LET colors_list == Split(color_names_str.toks)
       IN IF \A p \in 1..Len(colors_list) :
                IsWordOf(Strip(colors_list[p]), possible_colors)
          THEN Return(ListVal(colors_list))
          ELSE Raise("ValueError", <<"", "Invalid color names in the list">>)

validate_trame(value, valid_values) ==
  IF ~(value.t = "str" /\ value.s \in valid_values)
  THEN Raise("ValueError", <<"trame", "is not valid">>)
  ELSE Return(None)

\* The range check raises inside the try block, so the except clause
\* catches it and raises the not-a-float error in its place.
validate_positive_float(value, field_name) ==
  LET parsed == PyFloat(value)
      body == IF ~parsed.ok THEN parsed
              ELSE IF FloatNegative(parsed.val)
                   THEN Raise("ValueError", <<field_name, "must be non-negative">>)
                   ELSE Return(parsed.val)
  IN IF ~body.ok /\ body.exc = "ValueError"
     THEN Raise("ValueError", <<field_name, "must be a float">>)
     ELSE body

validate_mass_surf(value) ==
  LET parsed == PyFloat(value)
      body == IF ~parsed.ok THEN parsed
              ELSE IF FloatNegative(parsed.val)
                   THEN Raise("ValueError", <<"mass_surf", "must be non-negative">>)
                   ELSE Return(parsed.val)
  IN IF ~body.ok /\ body.exc = "ValueError"
     THEN Raise("ValueError", <<"mass_surf", "must be a float">>)
     ELSE body

true_values == {"vrai", "true", "1"}
false_values == {"faux", "false", "0"}

\* The comparison made on str(value), without lower().
validate_bool_caseSensitive(value) ==
  LET text == IF value.t = "str" THEN value.s ELSE "nan"
  IN IF text \in true_values THEN Return(BoolVal(TRUE))
     ELSE IF text \in false_values THEN Return(BoolVal(FALSE))
     ELSE Raise("ValueError", <<"", "Expected boolean value">>)

validate_bool(value) ==
  IF PyStrLower(value) \in true_values THEN Return(BoolVal(TRUE))
  ELSE IF PyStrLower(value) \in false_values THEN Return(BoolVal(FALSE))
  ELSE Raise("ValueError", <<"", "Expected boolean value">>)

validate_optional_int(value) ==
  IF pd_isnull(value) \/ value = Str("") THEN Return(None)
  ELSE LET parsed == PyInt(value)
       IN IF ~parsed.ok /\ parsed.exc = "ValueError"
          THEN Raise("ValueError", <<"", "Expected integer value">>)
          ELSE parsed

(***************************************************************************)
(* The batch: rows, messages, duplicate detection.                         *)
(***************************************************************************)
EmptyMsg(line, column) ==
  [kind |-> "Empty value", line |-> line, what |-> <<column, "">>]
DupMsg(line) ==
  [kind |-> "Duplicate codename found", line |-> line, what |-> <<"", "">>]
ErrMsg(line, e) == [kind |-> "Error", line |-> line, what |-> e.msg]

\* A printed line that is not a row's message.
Line(text) == [kind |-> text, line |-> 0, what |-> <<"", "">>]

\* Series.duplicated(keep='first'): an occurrence after the first one.
Duplicated_keepFirst(frame) ==
  [p \in 1..Len(frame) |->
     \E q \in 1..(p - 1) : frame[q].codename = frame[p].codename]

\* df.index.duplicated(keep=False): the flags of the wrong column.
Duplicated_ofIndex(frame) ==
  [p \in 1..Len(frame) |->
     \E q \in 1..Len(frame) : q # p /\ frame[q].index = frame[p].index]

\* df['codename'].duplicated(keep=False): every occurrence of a value that
\* occurs more than once (missing values count as equal to each other).
Duplicated(frame) ==
  [p \in 1..Len(frame) |->
     \E q \in 1..Len(frame) : q # p /\ frame[q].codename = frame[p].codename]

\* The errors a caught ValueError adds to row_errors.
Caught(line, r) ==
  IF ~r.ok /\ r.exc = "ValueError" THEN <<ErrMsg(line, r)>> ELSE <<>>
\* An exception no except clause of the loop catches.
Uncaught(r) == ~r.ok /\ r.exc # "ValueError"

\* One pass of the loop body on row i (0-based label): the row's errors, the
\* row with the coerced cells assigned, and whether an exception escaped.
LoopBody(idx, row, dup) ==
  LET line == idx + 1
      missing == SelectSeq(required_fields, LAMBDA c : pd_isnull(row[c]))
      e_req == [p \in 1..Len(missing) |-> EmptyMsg(line, missing[p])]
      e_dup == IF dup THEN <<DupMsg(line)>> ELSE <<>>
      r_trame == validate_trame(row.trame, valid_trames)
      r_mass == validate_mass_surf(row.mass_surf)
      r_bool == validate_bool(row.is_compat_interior_wall)
      r_height == validate_positive_float(row.mesh_height, "mesh_height")
      r_width == validate_positive_float(row.mesh_width, "mesh_width")
      \* mesh_height and mesh_width share one try block: the second call
      \* runs only when the first returned.
      e_mesh == IF ~r_height.ok THEN Caught(line, r_height)
                ELSE Caught(line, r_width)
      r_roll == validate_optional_int(row.roll_pallet)
      r_colors == convert_and_validate_colors(row.color_names, valid_colors)
      updated ==
        [row EXCEPT
           !.mass_surf = IF r_mass.ok THEN r_mass.val ELSE @,
           !.is_compat_interior_wall = IF r_bool.ok THEN r_bool.val ELSE @,
           !.mesh_height = IF r_height.ok THEN r_height.val ELSE @,
           !.mesh_width = IF r_height.ok /\ r_width.ok THEN r_width.val ELSE @,
           !.roll_pallet = IF r_roll.ok THEN r_roll.val ELSE @,
           !.color_names = IF r_colors.ok THEN r_colors.val ELSE @]
  IN [errors |-> e_req \o e_dup \o Caught(line, r_trame)
                 \o Caught(line, r_mass) \o Caught(line, r_bool) \o e_mesh
                 \o Caught(line, r_roll) \o Caught(line, r_colors),
      row |-> updated,
      crashed |-> \/ Uncaught(r_trame) \/ Uncaught(r_mass) \/ Uncaught(r_bool)
                  \/ Uncaught(r_height)
                  \/ (r_height.ok /\ Uncaught(r_width))
                  \/ Uncaught(r_roll) \/ Uncaught(r_colors)]

\* df[df['exclude']]: the negation forgotten.
FilterFrame_noNegation(frame) == SelectSeq(frame, LAMBDA row : row.exclude)

\* df[~df['exclude']]: the rows not marked, with their index labels.
FilterFrame(frame) == SelectSeq(frame, LAMBDA row : ~row.exclude)

\* df.drop(columns='exclude')
DropExclude(frame) ==
  [p \in 1..Len(frame) |->
     [c \in (DOMAIN frame[p]) \ {"exclude"} |-> frame[p][c]]]

\* `if error_messages` taken as "more than one message".
HasErrors_moreThanOne(messages) == Len(messages) > 1

\* `if error_messages`: a non-empty list is true.
HasErrors(messages) == messages # <<>>

\* The Mesh object insert_data_to_db builds from a row.
MeshOf(row) ==
  [codename |-> row.codename, trame |-> row.trame,
   mass_surf |-> row.mass_surf,
   is_compat_interior_wall |-> row.is_compat_interior_wall,
   mesh_height |-> row.mesh_height, mesh_width |-> row.mesh_width,
   roll_pallet |-> row.roll_pallet,
   color_names |-> Text(Join(row.color_names.l))]

(***************************************************************************)
(* The batches a run starts from: up to MaxRows well-formed rows with      *)
(* distinct codenames, then up to MaxDefects cells replaced.               *)
(***************************************************************************)
CodeNames == <<"A1", "B2", "C3", "D4">>

WellFormedRow(p) ==
  [index |-> p - 1,
   codename |-> Str(CodeNames[p]),
   trame |-> Str("T2 Ra1 M2 E2"),
   mass_surf |-> Str("12.5"),
   is_compat_interior_wall |-> Str("vrai"),
   mesh_height |-> Str("2.0"),
   mesh_width |-> Str("1.0"),
   roll_pallet |-> NaN,
   color_names |-> Text(<<"white", ",", "blue">>)]

\* The other values a cell of row p can hold, n rows in the batch.
Alternatives(column, p, n) ==
  CASE column = "codename" ->
         {NaN} \cup {Str(CodeNames[q]) : q \in (1..n) \ {p}}
    [] column = "trame" -> {NaN, Str("T9")}
    [] column = "mass_surf" -> {NaN, Str("0"), Str("-3"), Str("abc")}
    [] column = "is_compat_interior_wall" -> {NaN, Str("FAUX"), Str("maybe")}
    [] column = "mesh_height" -> {NaN, Str("-0.0001"), Str("abc")}
    [] column = "mesh_width" -> {NaN, Str("0"), Str("-3")}
    [] column = "roll_pallet" -> {Str("4"), Str("x")}
    [] column = "color_names" ->
         {NaN, Text(<<"white", ",", " ", "blue">>),
          Text(<<"white", ",", "white">>), Text(<<"white", ",", "pink">>)}

Columns ==
  {"codename", "trame", "mass_surf", "is_compat_interior_wall",
   "mesh_height", "mesh_width", "roll_pallet", "color_names"}

NoDefect == <<0, "", NaN>>
Defects(n) ==
  {NoDefect} \cup
  UNION {{<<p, c, v>> : v \in Alternatives(c, p, n)} :
           p \in 1..n, c \in Columns}

RECURSIVE ApplyDefects(_, _)
ApplyDefects(frame, ds) ==
  IF ds = <<>> THEN frame
  ELSE LET d == Head(ds)
           next == IF d[1] = 0 THEN frame
                   ELSE [frame EXCEPT ![d[1]][d[2]] = d[3]]
       IN ApplyDefects(next, Tail(ds))

\* The batch of n rows with the defects ds applied.
Batch(n, ds) == ApplyDefects([p \in 1..n |-> WellFormedRow(p)], ds)

(***************************************************************************)
(* The run of main.                                                        *)
(***************************************************************************)
Init ==
  /\ \E n \in 0..MaxRows :
       \E ds \in [1..MaxDefects -> Defects(n)] : csv = Batch(n, ds)
  /\ df = <<>>
  /\ duplicated_status = <<>>
  /\ error_messages = <<>>
  /\ i = 0
  /\ pc = "main"
  /\ stdout = <<>>
  /\ k = 0
  /\ db = <<>>
  /\ sink_calls = 0

\* main: engine = setup_database()
SetupDatabase ==
  /\ pc = "main"
  /\ pc' = "ingest"
  /\ UNCHANGED <<csv, df, duplicated_status, error_messages, i, stdout, k,
                 db, sink_calls>>

\* ingest_and_validate_csv up to the loop: the frame as read, the exclude
\* column, the empty report and the duplicate flags of the whole batch.
ReadCsv ==
  /\ pc = "ingest"
  /\ df' = [p \in 1..Len(csv) |->
              [index |-> csv[p].index, codename |-> csv[p].codename,
               trame |-> csv[p].trame, mass_surf |-> csv[p].mass_surf,
               is_compat_interior_wall |-> csv[p].is_compat_interior_wall,
               mesh_height |-> csv[p].mesh_height,
               mesh_width |-> csv[p].mesh_width,
               roll_pallet |-> csv[p].roll_pallet,
               color_names |-> csv[p].color_names,
               exclude |-> FALSE]]
  /\ error_messages' = <<>>
  /\ duplicated_status' = Duplicated(csv)
  /\ i' = 0
  /\ pc' = "loop"
  /\ UNCHANGED <<csv, stdout, k, db, sink_calls>>

\* One iteration of `for i, row in df.iterrows()`.
ValidateRow ==
  /\ pc = "loop"
  /\ i < Len(df)
  /\ LET out == LoopBody(i, df[i + 1], duplicated_status[i + 1])
     IN IF out.crashed
        THEN /\ pc' = "crashed"
             /\ df' = [df EXCEPT ![i + 1] = out.row]
             /\ UNCHANGED <<error_messages, i>>
        ELSE /\ pc' = "loop"
             /\ i' = i + 1
             /\ IF out.errors # <<>>
                THEN /\ error_messages' = error_messages \o out.errors
                     /\ df' = [df EXCEPT ![i + 1] =
                                 [out.row EXCEPT !.exclude = TRUE]]
                ELSE /\ error_messages' = error_messages
                     /\ df' = [df EXCEPT ![i + 1] = out.row]
  /\ UNCHANGED <<csv, duplicated_status, stdout, k, db, sink_calls>>

\* After the loop: drop the excluded rows, drop the exclude column and
\* return (df, error_messages).
FilterAndReturn ==
  /\ pc = "loop"
  /\ i = Len(df)
  /\ df' = DropExclude(FilterFrame(df))
  /\ pc' = "returned"
  /\ UNCHANGED <<csv, duplicated_status, error_messages, i, stdout, k, db,
                 sink_calls>>

\* main: print("Errors encountered:")
PrintHeader ==
  /\ pc = "returned"
  /\ HasErrors(error_messages)
  /\ stdout' = Append(stdout, Line("Errors encountered:"))
  /\ k' = 0
  /\ pc' = "printing"
  /\ UNCHANGED <<csv, df, duplicated_status, error_messages, i, db,
                 sink_calls>>

\* main: for message in error_messages: print(message)
PrintMessage ==
  /\ pc = "printing"
  /\ k < Len(error_messages)
  /\ stdout' = Append(stdout, error_messages[k + 1])
  /\ k' = k + 1
  /\ pc' = IF k + 1 = Len(error_messages) THEN "done" ELSE "printing"
  /\ UNCHANGED <<csv, df, duplicated_status, error_messages, i, db,
                 sink_calls>>

\* main: insert_data_to_db(df, engine), then the confirmation.
InsertData ==
  /\ pc = "returned"
  /\ ~HasErrors(error_messages)
  /\ db' = db \o [p \in 1..Len(df) |-> MeshOf(df[p])]
  /\ sink_calls' = sink_calls + 1
  /\ stdout' = Append(stdout, Line("Data ingested and validated successfully."))
  /\ pc' = "done"
  /\ UNCHANGED <<csv, df, duplicated_status, error_messages, i, k>>

Next ==
  \/ SetupDatabase
  \/ ReadCsv
  \/ ValidateRow
  \/ FilterAndReturn
  \/ PrintHeader
  \/ PrintMessage
  \/ InsertData

Spec == Init /\ [][Next]_vars

(***************************************************************************)
(* Vocabulary of the properties.                                           *)
(***************************************************************************)
\* The index labels of the batch as read.
Rows == 0..(Len(csv) - 1)
\* ingest_and_validate_csv has returned (df, error_messages).
Returned == pc \in {"returned", "printing", "done"}
\* The loop body has run to its end on row r.
Processed(r) == r < i
\* Row r of the batch is a row of the current frame.
InDataset(r) == \E p \in 1..Len(df) : df[p].index = r
\* The messages of the report that cite row r's line.
MsgsOf(r) ==
  {error_messages[p] : p \in {q \in 1..Len(error_messages) :
                                 error_messages[q].line = r + 1}}
FieldMsg(r, column, text) ==
  [kind |-> "Error", line |-> r + 1, what |-> <<column, text>>]
SharesCodename(r) ==
  \E s \in Rows : s # r /\ csv[s + 1].codename = csv[r + 1].codename

\* The field rules, stated on the raw cell.
FloatColumns == {"mass_surf", "mesh_height", "mesh_width"}
ParsesAsFloat(v) == v.t = "str" /\ v.s \in DOMAIN FloatLiterals
ValidFloat(v) == ParsesAsFloat(v) /\ FloatLiterals[v.s] >= 0
ValidBool(v) == v.t = "str" /\ Lower(v.s) \in true_values \cup false_values
ValidOptionalInt(v) ==
  pd_isnull(v) \/ (v.t = "str" /\ v.s \in DOMAIN IntLiterals)
ValidColors(v) ==
  /\ v.t = "text"
  /\ \A p \in 1..Len(Split(v.toks)) :
       IsWordOf(Strip(Split(v.toks)[p]), valid_colors)
AllPresent(raw) ==
  \A p \in 1..Len(required_fields) : ~pd_isnull(raw[required_fields[p]])
FieldsValid(raw) ==
  /\ raw.trame.t = "str" /\ raw.trame.s \in valid_trames
  /\ \A c \in FloatColumns : ValidFloat(raw[c])
  /\ ValidBool(raw.is_compat_interior_wall)
  /\ ValidOptionalInt(raw.roll_pallet)
  /\ ValidColors(raw.color_names)

\* The message each failing check of a row is to leave in the report.
ExpectedErrors(r) ==
  LET raw == csv[r + 1]
      results == {validate_trame(raw.trame, valid_trames),
                  validate_mass_surf(raw.mass_surf),
                  validate_bool(raw.is_compat_interior_wall),
                  validate_positive_float(raw.mesh_height, "mesh_height"),
                  validate_positive_float(raw.mesh_width, "mesh_width"),
                  validate_optional_int(raw.roll_pallet),
                  convert_and_validate_colors(raw.color_names, valid_colors)}
  IN {EmptyMsg(r + 1, required_fields[p]) :
        p \in {q \in 1..Len(required_fields) :
                 pd_isnull(raw[required_fields[q]])}}
     \cup (IF SharesCodename(r) THEN {DupMsg(r + 1)} ELSE {})
     \cup {ErrMsg(r + 1, res) :
             res \in {x \in results : ~x.ok /\ x.exc = "ValueError"}}

\* C1: once a row has been validated, every check that fails on it (a
\* missing required field, the duplicate codename, each field validator)
\* has its error in the report; no failure hides another check's error.
C1_EveryFailedCheckReported ==
  \A r \in Rows : Processed(r) => ExpectedErrors(r) \subseteq MsgsOf(r)

\* C2: validate_mass_surf and validate_positive_float put a raw string in
\* exactly one of three classes: unparsable gives "must be a float", parsable
\* and below 0 gives "must be non-negative", parsable and >= 0 gives the
\* float and no error.
C2_ThreeOutcomes ==
  \A r \in Rows : \A c \in {"mass_surf", "mesh_height"} :
    LET v == csv[r + 1][c]
        notFloat == FieldMsg(r, c, "must be a float") \in MsgsOf(r)
        negative == FieldMsg(r, c, "must be non-negative") \in MsgsOf(r)
    IN (Processed(r) /\ v.t = "str") =>
         IF ~ParsesAsFloat(v) THEN notFloat /\ ~negative
         ELSE IF FloatLiterals[v.s] < 0 THEN negative /\ ~notFloat
         ELSE /\ ~notFloat /\ ~negative
              /\ pc = "loop" => df[r + 1][c] = FloatVal(FloatLiterals[v.s])

\* C3: for every row and every required field that is missing in it, the
\* ingestion completes, the row is not in the returned dataset and the report
\* has the "Empty value" message naming the field and the row's line.
C3_MissingFieldExcludedAndReported ==
  \A r \in Rows : \A p \in 1..Len(required_fields) :
    pd_isnull(csv[r + 1][required_fields[p]]) =>
      /\ pc # "crashed"
      /\ Returned => /\ ~InDataset(r)
                     /\ EmptyMsg(r + 1, required_fields[p]) \in MsgsOf(r)

\* C4: no field value of any row ends the run with an uncaught exception:
\* the loop goes on over the remaining rows and the function returns.
C4_NoUncaughtFailure == pc # "crashed"

\* C5: when ingest_and_validate_csv has returned, any two distinct rows of the
\* batch with the same codename are both absent from the dataset and each has
\* its "Duplicate codename found" message with its own line, whatever else
\* is wrong or right with them.
C5_DuplicatesBothExcluded ==
  Returned =>
    \A r \in Rows : \A s \in Rows :
      (r # s /\ csv[r + 1].codename = csv[s + 1].codename) =>
        /\ ~InDataset(r) /\ ~InDataset(s)
        /\ DupMsg(r + 1) \in MsgsOf(r)
        /\ DupMsg(s + 1) \in MsgsOf(s)

\* A returned run with a duplicated pair, one of the two having another error
\* and the other none.
C5_Witness ==
  /\ Returned
  /\ \E r \in Rows : \E s \in Rows :
       /\ r # s /\ csv[r + 1].codename = csv[s + 1].codename
       /\ MsgsOf(r) # {DupMsg(r + 1)}
       /\ MsgsOf(s) = {DupMsg(s + 1)}

\* C6: when ingest_and_validate_csv has returned, a row is absent from the
\* dataset iff the report has a message of that row, every message belongs to
\* a row of the batch, and the report is empty iff no row was dropped.
C6_ExcludedIffErrors ==
  Returned =>
    /\ \A r \in Rows : ~InDataset(r) <=> MsgsOf(r) # {}
    /\ \A p \in 1..Len(error_messages) : error_messages[p].line - 1 \in Rows
    /\ error_messages = <<>> <=> Len(df) = Len(csv)

\* A returned run that dropped one row and kept another.
C6_Witness ==
  /\ Returned
  /\ \E r \in Rows : \E s \in Rows :
       /\ ~InDataset(r) /\ MsgsOf(r) # {}
       /\ InDataset(s) /\ MsgsOf(s) = {}

\* C7: in a run of main the sink is called at most once and only after the
\* loop has validated every row; with a non-empty report it is never called,
\* nothing is persisted and every message is printed; with an empty report it
\* is called exactly once with the whole validated batch.
C7_SinkOnceAfterValidation ==
  /\ sink_calls <= 1
  /\ sink_calls > 0 =>
       /\ pc = "done" /\ i = Len(csv) /\ error_messages = <<>>
       /\ db = [p \in 1..Len(df) |-> MeshOf(df[p])]
  /\ (pc = "done" /\ error_messages # <<>>) =>
       /\ sink_calls = 0 /\ db = <<>>
       /\ stdout = <<Line("Errors encountered:")>> \o error_messages
  /\ (pc = "done" /\ error_messages = <<>>) =>
       /\ sink_calls = 1 /\ Len(db) = Len(csv)
  /\ pc \in {"printing", "crashed"} => sink_calls = 0 /\ db = <<>>

\* A finished run with one invalid row: the valid row is in the dataset and
\* nothing was persisted.
C7_Witness ==
  /\ pc = "done"
  /\ error_messages # <<>>
  /\ Len(df) >= 1
  /\ sink_calls = 0

\* C8: convert_and_validate_colors fails iff some trimmed element of the
\* split value is outside the vocabulary, and otherwise returns the trimmed
\* elements in order, each of them a member of the vocabulary.
C8_ReturnedColorsInVocabulary ==
  \A r \in Rows :
    LET raw == csv[r + 1].color_names
        pieces == Split(raw.toks)
    IN (pc = "loop" /\ Processed(r) /\ raw.t = "text") =>
         /\ ~ValidColors(raw) <=>
              FieldMsg(r, "", "Invalid color names in the list") \in MsgsOf(r)
         /\ ValidColors(raw) =>
              /\ df[r + 1].color_names =
                   ListVal([p \in 1..Len(pieces) |-> Strip(pieces[p])])
              /\ \A p \in 1..Len(df[r + 1].color_names.l) :
                   IsWordOf(df[r + 1].color_names.l[p], valid_colors)

\* The row of the returned dataset that a valid raw row is to become.
KeptAsCoerced(r) ==
  LET raw == csv[r + 1]
  IN \E p \in 1..Len(df) :
       /\ df[p].index = r
       /\ df[p].codename = raw.codename
       /\ df[p].trame = raw.trame
       /\ \A c \in FloatColumns : df[p][c] = FloatVal(FloatLiterals[raw[c].s])
       /\ df[p].is_compat_interior_wall =
            BoolVal(Lower(raw.is_compat_interior_wall.s) \in true_values)
       /\ df[p].roll_pallet =
            IF pd_isnull(raw.roll_pallet) THEN None
            ELSE IntVal(IntLiterals[raw.roll_pallet.s])
       /\ df[p].color_names.t = "list"
       /\ Join(df[p].color_names.l) = raw.color_names.toks

C10_UniqueAndOrdered ==
  Returned =>
    /\ \A p \in 1..Len(df) : \A q \in 1..Len(df) :
         p < q => /\ df[p].codename # df[q].codename
                  /\ df[p].index < df[q].index
    /\ \A p \in 1..Len(df) :
         /\ df[p].index \in Rows
         /\ df[p].codename = csv[df[p].index + 1].codename

\* A returned dataset that kept the second row of the batch and dropped the
\* first.
C10_Witness ==
  /\ Returned
  /\ Len(csv) = 2
  /\ Len(df) = 1
  /\ df[1].index = 1

====
